---- MODULE Spec2Model ----
(***************************************************************************)
(* polartools/absorption.py: loading and normalisation of x-ray absorption *)
(* data.  The module is a set of stateless functions; every call is one    *)
(* action that draws its inputs (and the outcomes of the external          *)
(* collaborators it calls) from bounded sets and records what the call     *)
(* returned or that it raised.                                             *)
(*                                                                         *)
(* Arrays are sequences; the indices ie0, p1, p2 keep Python's 0-based     *)
(* values, element i of array a is a[i+1].                                 *)
(***************************************************************************)
EXTENDS Integers, Sequences, FiniteSets, TLC

VARIABLES
    pc,     \* "idle": no call in progress; "returned": a call has ended
    fn,     \* name of the function that was called
    args,   \* its arguments
    ret     \* its outcome: ret.raised, and the returned values when it is FALSE

vars == <<pc, fn, args, ret>>

----------------------------------------------------------------------------
(* Bounds of the model.                                                    *)

MaxLen == 4         \* longest energy / absorption array
MaxEnergy == 3      \* energies are the integers 0..MaxEnergy
MaxDegree == 1      \* highest post-edge polynomial degree

----------------------------------------------------------------------------
(* Numbers.  A float is not-a-number or a value q + l*ln(2) with q, l      *)
(* rational; a rational is a pair <<numerator, denominator>> in lowest     *)
(* terms with a positive denominator.  Rounding is not modelled.           *)

Abs(x) == IF x < 0 THEN -x ELSE x

RECURSIVE Gcd(_, _)
Gcd(a, b) == IF b = 0 THEN a ELSE Gcd(b, a % b)

Rat(n, d) ==
    LET g == Gcd(Abs(n), Abs(d))
        s == IF d < 0 THEN -1 ELSE 1
    IN  <<(s * n) \div g, (s * d) \div g>>

Zero == <<0, 1>>
RatAdd(x, y) == Rat(x[1] * y[2] + y[1] * x[2], x[2] * y[2])
RatSub(x, y) == Rat(x[1] * y[2] - y[1] * x[2], x[2] * y[2])
RatMul(x, y) == Rat(x[1] * y[1], x[2] * y[2])
RatDiv(x, y) == Rat(x[1] * y[2], x[2] * y[1])
RatLess(x, y) == x[1] * y[2] < y[1] * x[2]

NaN == [nan |-> TRUE, q |-> Zero, l |-> Zero]
Real(q, l) == [nan |-> FALSE, q |-> q, l |-> l]
Num(i) == Real(<<i, 1>>, Zero)
isfinite(x) == ~x.nan

Add(x, y) ==
    IF x.nan \/ y.nan THEN NaN ELSE Real(RatAdd(x.q, y.q), RatAdd(x.l, y.l))
Sub(x, y) ==
    IF x.nan \/ y.nan THEN NaN ELSE Real(RatSub(x.q, y.q), RatSub(x.l, y.l))
Scale(r, x) ==
    IF x.nan THEN NaN ELSE Real(RatMul(r, x.q), RatMul(r, x.l))

Max(S) == CHOOSE x \in S : \A y \in S : y <= x

\* Python a[lo:hi] for 0 <= lo, hi: the elements lo .. hi-1 that exist.
Slice(a, lo, hi) ==
    SubSeq(a, lo + 1, IF hi > Len(a) THEN Len(a) ELSE hi)

\* The strictly increasing sequences of length n over lo..hi.
RECURSIVE Increasing(_, _, _)
Increasing(n, lo, hi) ==
    IF n = 0 THEN {<<>>}
    ELSE UNION {{<<x>> \o s : s \in Increasing(n - 1, x + 1, hi)} : x \in lo..hi}

----------------------------------------------------------------------------
(* larch.math helpers called by _flatten_norm.                             *)

\* index_nearest(array, value): np.abs(array - value).argmin(), the first
\* index at the least distance.
index_nearest(array, value) ==
    CHOOSE i \in 0..(Len(array) - 1) :
        /\ \A j \in 0..(Len(array) - 1) :
              Abs(array[i + 1] - value) <= Abs(array[j + 1] - value)
        /\ \A j \in 0..(i - 1) :
              Abs(array[j + 1] - value) > Abs(array[i + 1] - value)

\* index_of(array, value): index of array at or below value, 0 if value is
\* below min(array).
index_of(array, value) ==
    IF \A i \in 1..Len(array) : value < array[i] THEN 0
    ELSE Max({i \in 0..(Len(array) - 1) : array[i + 1] <= value})

\* remove_nans2(a, b): both arrays without the positions where either is
\* not finite.  a holds energies (always finite here), b holds floats.
RECURSIVE remove_nans2(_, _)
remove_nans2(a, b) ==
    IF Len(a) = 0 \/ Len(b) = 0 THEN <<<<>>, <<>>>>
    ELSE LET rest == remove_nans2(Tail(a), Tail(b))
         IN  IF isfinite(Head(b))
             THEN <<<<Head(a)>> \o rest[1], <<Head(b)>> \o rest[2]>>
             ELSE rest

----------------------------------------------------------------------------
(* lmfit.models.PolynomialModel, the external polynomial fitter.           *)

\* result.eval(x=...): c0 + c1*x + ... ; coefs[k+1] is the coefficient ck.
RECURSIVE PolyEval(_, _)
PolyEval(coefs, x) ==
    IF Len(coefs) = 0 THEN 0 ELSE Head(coefs) + x * PolyEval(Tail(coefs), x)

CoefVals == {-1, 1}

\* What model.guess + model.fit can do on the window (enx, mux): the least
\* squares routine refuses fewer data points than parameters (and the guess
\* refuses an empty window); otherwise the fit raises, or returns fitted
\* parameters with result.success TRUE ("converged") or FALSE ("aborted":
\* lmfit reports a fit that did not converge in the result, it does not
\* raise).
PolynomialModel_fit(enx, nnorm) ==
    {[status |-> "raise", coefs |-> <<>>]} \cup
    (IF Len(enx) < nnorm + 1 THEN {}
     ELSE [status : {"converged", "aborted"}, coefs : [1..(nnorm + 1) -> CoefVals]])

----------------------------------------------------------------------------
(* _flatten_norm                                                           *)

\* Mutant of flat_all: the polynomial is subtracted without being anchored
\* at the edge sample.
flat_all_unanchored(energy, norm, coefs, ie0) ==
    [i \in 1..Len(norm) |-> Sub(norm[i], Num(PolyEval(coefs, energy[i])))]

\* Mutant of flat_all: a sign slip, the polynomial's value at the edge sample
\* is added to the subtracted polynomial instead of taken off it.
flat_all_offset_added(energy, norm, coefs, ie0) ==
    [i \in 1..Len(norm) |->
        Sub(norm[i], Num(PolyEval(coefs, energy[i]) + PolyEval(coefs, energy[ie0 + 1])))]

\* flat = norm - (result.eval(x=energy) - result.eval(x=energy)[ie0])
flat_all(energy, norm, coefs, ie0) ==
    [i \in 1..Len(norm) |->
        Sub(norm[i], Num(PolyEval(coefs, energy[i]) - PolyEval(coefs, energy[ie0 + 1])))]

\* Mutant of flat_keep_preedge: the pre-edge samples are not restored.
flat_keep_nothing(flat, norm, ie0) == flat

\* flat[:ie0] = norm[:ie0]
flat_keep_preedge(flat, norm, ie0) ==
    [i \in 1..Len(flat) |-> IF i - 1 < ie0 THEN norm[i] ELSE flat[i]]

\* model.guess(mux, x=enx) is np.polyfit on the window, which refuses an
\* empty one.
PolynomialModel_guess_raises(enx) == Len(enx) = 0

\* The whole of _flatten_norm, given the outcome `fit` of the external fit.
\* nguess and nfit count the calls of model.guess and model.fit; fitstatus
\* is what model.fit did ("none" when it was not called).
flatten_norm(energy, norm, e0, norm1, norm2, nnorm, fpars, fit) ==
    LET ie0 == index_nearest(energy, e0)
        p1 == index_of(energy, norm1 + e0)
        p2 == index_nearest(energy, norm2 + e0)
        win == remove_nans2(Slice(energy, p1, p2), Slice(norm, p1, p2))
        base == [ie0 |-> ie0, p1 |-> p1, p2 |-> p2, enx |-> win[1], mux |-> win[2],
                 nguess |-> IF fpars = "None" THEN 1 ELSE 0]
    IN  IF fpars = "None" /\ PolynomialModel_guess_raises(win[1])
        THEN [raised |-> TRUE, where |-> "guess", nfit |-> 0,
              fitstatus |-> "none", coefs |-> <<>>, flat |-> <<>>] @@ base
        ELSE IF fit.status = "raise"
        THEN [raised |-> TRUE, where |-> "fit", nfit |-> 1,
              fitstatus |-> "raise", coefs |-> <<>>, flat |-> <<>>] @@ base
        ELSE [raised |-> FALSE, where |-> "", nfit |-> 1,
              fitstatus |-> fit.status, coefs |-> fit.coefs,
              flat |-> flat_keep_preedge(
                          flat_all(energy, norm, fit.coefs, ie0), norm, ie0)] @@ base

----------------------------------------------------------------------------
(* Inputs of the normalisation.                                            *)

\* Energy arrays: strictly increasing, 2..MaxLen samples.
EnergyArrays == UNION {Increasing(n, 0, MaxEnergy) : n \in 2..MaxLen}

\* Normalised absorption: finite values or not-a-number.
NormVals == {Num(1), NaN}
NormArrays(n) == [1..n -> NormVals]

\* Raw absorption arrays of 1..MaxLen samples (their values do not enter
\* any computation of this module, only their length and the copy in 'raw').
XanesArrays == {[i \in 1..m |-> Num(i)] : m \in 1..MaxLen}

\* Edge energies and post-edge window bounds (relative to the edge).
E0Vals == 0..MaxEnergy
Norm1Vals == {0, 1}
Norm2Vals == {1, MaxEnergy}
Degrees == 0..MaxDegree
FparsVals == {"None", "given"}

----------------------------------------------------------------------------
(* larch.xafs.preedge, the external pre-/post-edge collaborator.  It       *)
(* combines energy and absorption element-wise, which numpy refuses unless *)
(* the lengths are equal or one of them is 1 (broadcast).  Otherwise it    *)
(* raises, or returns the edge energy, the normalised curve and the        *)
(* resolved window bounds and polynomial order.                            *)

broadcastable(n, m) == n = m \/ n = 1 \/ m = 1

preedge(energy, xanes) ==
    {[raised |-> TRUE, e0 |-> 0, norm |-> <<>>, norm1 |-> 0, norm2 |-> 0, nnorm |-> 0]}
    \cup
    (IF ~broadcastable(Len(energy), Len(xanes)) THEN {}
     ELSE [raised : {FALSE}, e0 : E0Vals,
           norm : NormArrays(Max({Len(energy), Len(xanes)})),
           norm1 : Norm1Vals, norm2 : Norm2Vals, nnorm : Degrees])

----------------------------------------------------------------------------
(* normalize_absorption                                                    *)

\* results = preedge(...); results['energy'], ['raw'], ['flat'] are added.
normalize_absorption_result(energy, xanes, fpars, pre, fit) ==
    IF pre.raised
    THEN [raised |-> TRUE, where |-> "preedge", nfit |-> 0, nguess |-> 0,
          results |-> <<>>]
    ELSE LET f == flatten_norm(energy, pre.norm, pre.e0, pre.norm1, pre.norm2,
                               pre.nnorm, fpars, fit)
         IN  IF f.raised
             THEN [raised |-> TRUE, where |-> f.where, nfit |-> f.nfit,
                   nguess |-> f.nguess, results |-> <<>>, trace |-> f,
                   pre |-> pre]
             ELSE [raised |-> FALSE, where |-> "", nfit |-> f.nfit,
                   nguess |-> f.nguess, trace |-> f, pre |-> pre,
                   results |-> [e0 |-> pre.e0, norm |-> pre.norm,
                                norm1 |-> pre.norm1, norm2 |-> pre.norm2,
                                nnorm |-> pre.nnorm, energy |-> energy,
                                raw |-> xanes, flat |-> f.flat]]

\* The fit outcomes open to a call: those of the window _flatten_norm cuts.
FitChoices(energy, norm, e0, norm1, norm2, nnorm) ==
    LET p1 == index_of(energy, norm1 + e0)
        p2 == index_nearest(energy, norm2 + e0)
        win == remove_nans2(Slice(energy, p1, p2), Slice(norm, p1, p2))
    IN  PolynomialModel_fit(win[1], nnorm)

NoFit == [status |-> "raise", coefs |-> <<>>]

normalize_absorption ==
    /\ pc = "idle"
    /\ \E energy \in EnergyArrays, xanes \in XanesArrays, fpars \in FparsVals :
       \E pre \in preedge(energy, xanes) :
       \E fit \in IF pre.raised THEN {NoFit}
                  ELSE FitChoices(energy, pre.norm, pre.e0, pre.norm1,
                                  pre.norm2, pre.nnorm) :
          /\ fn' = "normalize_absorption"
          /\ args' = [energy |-> energy, xanes |-> xanes, fpars |-> fpars]
          /\ ret' = normalize_absorption_result(energy, xanes, fpars, pre, fit)
    /\ pc' = "returned"

\* _flatten_norm called on its own.
call_flatten_norm ==
    /\ pc = "idle"
    /\ \E energy \in EnergyArrays, e0 \in E0Vals, norm1 \in Norm1Vals,
          norm2 \in Norm2Vals, nnorm \in Degrees, fpars \in FparsVals :
       \E norm \in NormArrays(Len(energy)) :
       \E fit \in FitChoices(energy, norm, e0, norm1, norm2, nnorm) :
          /\ fn' = "_flatten_norm"
          /\ args' = [energy |-> energy, norm |-> norm, e0 |-> e0,
                      norm1 |-> norm1, norm2 |-> norm2, nnorm |-> nnorm,
                      fpars |-> fpars]
          /\ ret' = flatten_norm(energy, norm, e0, norm1, norm2, nnorm, fpars, fit)
    /\ pc' = "returned"

\* The caller is done with the outcome; nothing is kept between calls.
Return ==
    /\ pc = "returned"
    /\ pc' = "idle"
    /\ fn' = "none"
    /\ args' = <<>>
    /\ ret' = <<>>

Init ==
    /\ pc = "idle"
    /\ fn = "none"
    /\ args = <<>>
    /\ ret = <<>>

NextNorm == call_flatten_norm \/ normalize_absorption \/ Return

SpecNorm == Init /\ [][NextNorm]_vars

----------------------------------------------------------------------------
(* Single-scan loaders: sources, tables and column names.                  *)

MaxRows == 5        \* most samples in one loaded table

\* More float arithmetic for the loaders.  Division and logarithm are taken
\* of rationals only (counts and their ratios); the counts are powers of
\* two, so that ln(m/d) is the integer log2(m) - log2(d) times ln(2).
RECURSIVE Log2(_)
Log2(n) == IF n <= 1 THEN 0 ELSE 1 + Log2(n \div 2)

Div(x, y) ==
    IF x.nan \/ y.nan \/ y.q[1] = 0 THEN NaN ELSE Real(RatDiv(x.q, y.q), Zero)
Log(x) ==
    IF x.nan \/ x.q[1] <= 0 THEN NaN
    ELSE Real(Zero, <<Log2(x.q[1]) - Log2(x.q[2]), 1>>)

RECURSIVE Sum(_)
Sum(a) == IF Len(a) = 0 THEN Num(0) ELSE Add(Head(a), Sum(Tail(a)))
\* ndarray.mean over the elements of a.
Mean(a) == Scale(<<1, Len(a)>>, Sum(a))

\* The sources a loader can be given: the literal 'csv', names of files (a
\* spec file written by SPEC, one written by Bluesky, a file that is not a
\* spec file, a file that does not exist), SpecDataFile objects of the two
\* spec files, and a databroker database.
StrSources == {"csv", "legacy.spec", "bluesky.spec", "notes.txt", "missing.spec"}
SpecDataFiles == {"SpecDataFile(legacy.spec)", "SpecDataFile(bluesky.spec)"}
Sources == StrSources \cup SpecDataFiles \cup {"databroker"}

\* isinstance(source, (str, SpecDataFile))
is_str_or_SpecDataFile(source) == source \in StrSources \cup SpecDataFiles

spec_default_cols ==
    [positioner |-> "Energy", detector |-> "IC5", monitor |-> "IC4",
     dc_col |-> "Lock DC", ac_col |-> "Lock AC", acoff_col |-> "Lock ACoff"]

bluesky_default_cols ==
    [positioner |-> "monochromator_energy", detector |-> "Ion Ch 5",
     monitor |-> "Ion Ch 4", dc_col |-> "Lock DC", ac_col |-> "Lock AC",
     acoff_col |-> "Lock AC off"]

\* load_data.is_Bluesky_specfile: opens the source as a spec file and tells
\* whether Bluesky wrote it; raises when the file is missing or is not a
\* spec file ('csv' names no spec file).
is_Bluesky_specfile(source) ==
    CASE source \in {"bluesky.spec", "SpecDataFile(bluesky.spec)"} ->
            [raised |-> FALSE, exc |-> "", check |-> TRUE]
      [] source \in {"legacy.spec", "SpecDataFile(legacy.spec)"} ->
            [raised |-> FALSE, exc |-> "", check |-> FALSE]
      [] source = "notes.txt" ->
            [raised |-> TRUE, exc |-> "NotASpecDataFile", check |-> FALSE]
      [] OTHER ->
            [raised |-> TRUE, exc |-> "SpecDataFileNotFound", check |-> FALSE]

\* The column names the data of a source are stored under.
Convention(source) ==
    IF source \in {"legacy.spec", "SpecDataFile(legacy.spec)"}
    THEN spec_default_cols ELSE bluesky_default_cols

\* Column data: n counts following one of four patterns (constant 1,
\* constant 2, alternating, and the + - - + pattern of a dichro scan).
Pattern(k, n) ==
    [i \in 1..n |->
        Num(CASE k = 1 -> 1
              [] k = 2 -> 2
              [] k = 3 -> IF i % 2 = 1 THEN 1 ELSE 2
              [] OTHER -> IF i % 4 \in {0, 1} THEN 2 ELSE 1)]
Patterns(n) == {Pattern(k, n) : k \in 1..4}
ConstPatterns(n) == {Pattern(k, n) : k \in 1..2}

\* Tables: mappings from column names to columns of equal length.  An
\* absorption scan, a lock-in scan and a SPEC dichro scan (which holds one
\* column per polarisation).
XasTable(names, pos, det, mon) ==
    (names.positioner :> pos) @@ (names.detector :> det) @@
    (names.monitor :> mon) @@ ("theta" :> [i \in 1..Len(pos) |-> Num(10 * i)])

LockinTable(names, pos, dc, ac, acoff) ==
    (names.positioner :> pos) @@ (names.dc_col :> dc) @@ (names.ac_col :> ac) @@
    (names.acoff_col :> acoff) @@ ("theta" :> [i \in 1..Len(pos) |-> Num(10 * i)])

DichroSpecTable(pos, monp, detp, monm, detm) ==
    ("Energy" :> pos) @@ ("IC4(+)" :> monp) @@ ("IC5(+)" :> detp) @@
    ("IC4(-)" :> monm) @@ ("IC5(-)" :> detm)

XasTables(names, pos) ==
    {XasTable(names, pos, det, mon) :
        det \in Patterns(Len(pos)), mon \in ConstPatterns(Len(pos))}
LockinTables(names, pos) ==
    {LockinTable(names, pos, dc, ac, acoff) :
        dc \in ConstPatterns(Len(pos)), ac \in Patterns(Len(pos)),
        acoff \in ConstPatterns(Len(pos))}
DichroSpecTables(names, pos) ==
    IF names # spec_default_cols THEN {}
    ELSE {DichroSpecTable(pos, mon, detp, mon, detm) :
            mon \in {Pattern(1, Len(pos))},
            detp \in Patterns(Len(pos)), detm \in Patterns(Len(pos))}

TablesOn(names, pos) ==
    XasTables(names, pos) \cup LockinTables(names, pos) \cup DichroSpecTables(names, pos)

\* The positioner column of a single loaded scan: 0, 1, 2, ...
Ramp(n) == [i \in 1..n |-> Num(i - 1)]

\* load_data.load_table(scan, source): raises, or returns the table of the
\* scan, one of `tables`.  A file that is missing or is not a spec file has
\* no table.
TableRaised == [raised |-> TRUE, table |-> <<>>]
load_table(source, tables) ==
    {TableRaised} \cup
    (IF source \in {"notes.txt", "missing.spec"} THEN {}
     ELSE {[raised |-> FALSE, table |-> t] : t \in tables})

\* Python truth value of an optional column name: None and '' are false.
falsy(name) == name \in {"None", ""}

----------------------------------------------------------------------------
(* _select_default_names, load_absorption, load_lockin, load_dichro        *)

\* Mutant of select_default_names: the two conventions the wrong way round
\* after the check of the spec file's origin.
select_default_names_swapped(source) ==
    IF is_str_or_SpecDataFile(source)
    THEN LET c == is_Bluesky_specfile(source)
         IN  IF c.raised /\ c.exc \in {"NotASpecDataFile", "SpecDataFileNotFound"}
             THEN bluesky_default_cols
             ELSE IF c.check THEN spec_default_cols ELSE bluesky_default_cols
    ELSE bluesky_default_cols

\* _select_default_names
select_default_names(source) ==
    IF is_str_or_SpecDataFile(source)
    THEN LET c == is_Bluesky_specfile(source)
         IN  IF c.raised /\ c.exc \in {"NotASpecDataFile", "SpecDataFileNotFound"}
             THEN bluesky_default_cols
             ELSE IF c.check THEN bluesky_default_cols ELSE spec_default_cols
    ELSE bluesky_default_cols

\* A call that ended raising at `where`.  The loaders add `names`, the
\* column names they had settled on before the table was loaded.
Raised(where, exc) ==
    [raised |-> TRUE, where |-> where, exc |-> exc]

\* Mutant of absorption: the ratio the wrong way round in both modes.
absorption_swapped(mon, det, transmission) ==
    [i \in 1..Len(det) |->
        IF transmission THEN Log(Div(det[i], mon[i])) ELSE Div(mon[i], det[i])]

\* np.log(table[monitor]/table[detector]) or table[detector]/table[monitor]
absorption(mon, det, transmission) ==
    [i \in 1..Len(det) |->
        IF transmission THEN Log(Div(mon[i], det[i])) ELSE Div(det[i], mon[i])]

load_absorption(source, positioner, detector, monitor, transmission, lt) ==
    LET defaults == select_default_names(source)
        pos == IF falsy(positioner) THEN defaults.positioner ELSE positioner
        det == IF falsy(detector) THEN defaults.detector ELSE detector
        mon == IF falsy(monitor) THEN defaults.monitor ELSE monitor
        names == [positioner |-> pos, detector |-> det, monitor |-> mon]
    IN  IF lt.raised THEN Raised("load_table", "load_table") @@ [names |-> names]
        ELSE IF ~({pos, mon, det} \subseteq DOMAIN lt.table)
        THEN Raised("column", "KeyError") @@ [names |-> names]
        ELSE [raised |-> FALSE, where |-> "", exc |-> "",
              names |-> names,
              table |-> lt.table,
              x |-> lt.table[pos],
              y |-> absorption(lt.table[mon], lt.table[det], transmission)]

load_lockin(source, positioner, dc_col, ac_col, acoff_col, lt) ==
    LET defaults == select_default_names(source)
        pos == IF falsy(positioner) THEN defaults.positioner ELSE positioner
        dc == IF falsy(dc_col) THEN defaults.dc_col ELSE dc_col
        ac == IF falsy(ac_col) THEN defaults.ac_col ELSE ac_col
        acoff == IF falsy(acoff_col) THEN defaults.acoff_col ELSE acoff_col
        names == [positioner |-> pos, dc_col |-> dc, ac_col |-> ac,
                  acoff_col |-> acoff]
    IN  IF lt.raised THEN Raised("load_table", "load_table") @@ [names |-> names]
        ELSE IF ~({pos, dc, ac, acoff} \subseteq DOMAIN lt.table)
        THEN Raised("column", "KeyError") @@ [names |-> names]
        ELSE [raised |-> FALSE, where |-> "", exc |-> "",
              names |-> names,
              table |-> lt.table,
              x |-> lt.table[pos],
              xanes |-> lt.table[dc],
              xmcd |-> [i \in 1..Len(lt.table[ac]) |->
                           Sub(lt.table[ac][i], lt.table[acoff][i])]]

\* Mutant of ndarray_reshape: the samples that do not fill a row are dropped.
ndarray_reshape_truncating(a, rows, cols) ==
    [raised |-> FALSE,
     m |-> [r \in 1..rows |-> SubSeq(a, (r - 1) * cols + 1, r * cols)]]

\* numpy a.reshape(rows, cols): refuses a shape that does not hold exactly
\* the elements of a.
ndarray_reshape(a, rows, cols) ==
    IF Len(a) # rows * cols THEN [raised |-> TRUE, m |-> <<>>]
    ELSE [raised |-> FALSE,
          m |-> [r \in 1..rows |-> SubSeq(a, (r - 1) * cols + 1, r * cols)]]

\* The SPEC branch of load_dichro: one column per polarisation.
load_dichro_spec(positioner, detector, monitor, transmission, lt) ==
    LET pos == IF falsy(positioner) THEN spec_default_cols.positioner ELSE positioner
        mon == IF falsy(monitor) THEN spec_default_cols.monitor ELSE monitor
        det == IF falsy(detector) THEN spec_default_cols.detector ELSE detector
        cols == {pos, mon \o "(+)", det \o "(+)", mon \o "(-)", det \o "(-)"}
    IN  IF lt.raised THEN Raised("load_table", "load_table")
        ELSE IF ~(cols \subseteq DOMAIN lt.table) THEN Raised("column", "KeyError")
        ELSE LET monp == lt.table[mon \o "(+)"]
                 detp == lt.table[det \o "(+)"]
                 monm == lt.table[mon \o "(-)"]
                 detm == lt.table[det \o "(-)"]
                 plus == absorption(monp, detp, transmission)
                 minus == absorption(monm, detm, transmission)
             IN  [raised |-> FALSE, where |-> "", exc |-> "", branch |-> "spec",
                  names |-> [positioner |-> pos, detector |-> det, monitor |-> mon],
                  table |-> lt.table,
                  x |-> lt.table[pos],
                  xanes |-> [i \in 1..Len(plus) |->
                                Scale(<<1, 2>>, Add(plus[i], minus[i]))],
                  xmcd |-> [i \in 1..Len(plus) |-> Sub(plus[i], minus[i])]]

\* The other branch: four consecutive samples per point, + - - +.
load_dichro_four(source, positioner, detector, monitor, transmission, lt) ==
    LET la == load_absorption(source, positioner, detector, monitor, transmission, lt)
    IN  IF la.raised THEN la
        ELSE LET size == Len(la.x) \div 4
                 x0 == ndarray_reshape(la.x, size, 4)
                 y0 == ndarray_reshape(la.y, size, 4)
             IN  IF x0.raised \/ y0.raised
                 THEN Raised("reshape", "ValueError") @@
                      [branch |-> "four", table |-> lt.table, names |-> la.names]
                 ELSE [raised |-> FALSE, where |-> "", exc |-> "", branch |-> "four",
                       names |-> la.names, table |-> lt.table,
                       x |-> [r \in 1..size |-> Mean(x0.m[r])],
                       xanes |-> [r \in 1..size |-> Mean(y0.m[r])],
                       xmcd |-> [r \in 1..size |->
                                    Sub(Mean(<<y0.m[r][1], y0.m[r][4]>>),
                                        Mean(<<y0.m[r][2], y0.m[r][3]>>))]]

load_dichro(source, positioner, detector, monitor, transmission, lt) ==
    IF is_str_or_SpecDataFile(source) /\ source # "csv"
    THEN LET c == is_Bluesky_specfile(source)
         IN  IF c.raised THEN Raised("is_Bluesky_specfile", c.exc)
             ELSE IF ~c.check
             THEN load_dichro_spec(positioner, detector, monitor, transmission, lt)
             ELSE load_dichro_four(source, positioner, detector, monitor,
                                   transmission, lt)
    ELSE load_dichro_four(source, positioner, detector, monitor, transmission, lt)

----------------------------------------------------------------------------
(* Calls of the single-scan loaders.                                       *)

\* The optional column names a caller passes.
AbsorptionNames ==
    {[positioner |-> "None", detector |-> "None", monitor |-> "None"],
     [positioner |-> "theta", detector |-> "None", monitor |-> "None"],
     [positioner |-> "", detector |-> "", monitor |-> ""],
     [positioner |-> "Energy", detector |-> "IC5", monitor |-> "IC4"]}
LockinNames ==
    {[positioner |-> "None", dc_col |-> "None", ac_col |-> "None", acoff_col |-> "None"],
     [positioner |-> "theta", dc_col |-> "", ac_col |-> "", acoff_col |-> ""],
     [positioner |-> "Energy", dc_col |-> "Lock DC", ac_col |-> "Lock AC",
      acoff_col |-> "Lock ACoff"]}

\* The tables a single call may load: 0..MaxRows samples, stored under the
\* column names of the source.
ScanTables(source) ==
    UNION {TablesOn(Convention(source), Ramp(n)) : n \in 0..MaxRows}

call_load_absorption ==
    /\ pc = "idle"
    /\ \E source \in Sources, n \in AbsorptionNames, transmission \in BOOLEAN :
       \E lt \in load_table(source, ScanTables(source)) :
          /\ fn' = "load_absorption"
          /\ args' = [source |-> source, transmission |-> transmission] @@ n
          /\ ret' = load_absorption(source, n.positioner, n.detector, n.monitor,
                                    transmission, lt)
    /\ pc' = "returned"

call_load_lockin ==
    /\ pc = "idle"
    /\ \E source \in Sources, n \in LockinNames :
       \E lt \in load_table(source, ScanTables(source)) :
          /\ fn' = "load_lockin"
          /\ args' = [source |-> source] @@ n
          /\ ret' = load_lockin(source, n.positioner, n.dc_col, n.ac_col,
                                n.acoff_col, lt)
    /\ pc' = "returned"

call_load_dichro ==
    /\ pc = "idle"
    /\ \E source \in Sources, n \in AbsorptionNames, transmission \in BOOLEAN :
       \E lt \in load_table(source, ScanTables(source)) :
          /\ fn' = "load_dichro"
          /\ args' = [source |-> source, transmission |-> transmission] @@ n
          /\ ret' = load_dichro(source, n.positioner, n.detector, n.monitor,
                                transmission, lt)
    /\ pc' = "returned"

NextLoad == call_load_absorption \/ call_load_lockin \/ call_load_dichro \/ Return

SpecLoad == Init /\ [][NextLoad]_vars

----------------------------------------------------------------------------
(* Multi-scan aggregators: load_multi_xas, load_multi_dichro,              *)
(* load_multi_lockin.                                                      *)

MaxScans == 3       \* longest sequence of scans

\* Mutant of interp1d_at: outside the range the nearest end value is held
\* (what np.interp does) instead of the fill value.
interp1d_at_clamped(x, y, v) ==
    IF v.nan THEN NaN
    ELSE IF RatLess(v.q, x[1].q) THEN y[1]
    ELSE IF RatLess(x[Len(x)].q, v.q) THEN y[Len(x)]
    ELSE LET hi == CHOOSE k \in 2..Len(x) :
                      /\ ~RatLess(x[k].q, v.q)
                      /\ \A j \in 2..(k - 1) : RatLess(x[j].q, v.q)
             lo == hi - 1
             w == RatDiv(RatSub(v.q, x[lo].q), RatSub(x[hi].q, x[lo].q))
         IN  Add(Scale(w, Sub(y[hi], y[lo])), y[lo])

\* scipy interp1d(x, y, kind='linear', fill_value=np.nan,
\* bounds_error=False) evaluated at v; x is increasing with at least two
\* points.  Outside [x[0], x[-1]] the fill value; inside, on the segment
\* [x[lo], x[hi]] found by a left bisection, slope*(v - x[lo]) + y[lo].
interp1d_at(x, y, v) ==
    IF v.nan \/ RatLess(v.q, x[1].q) \/ RatLess(x[Len(x)].q, v.q) THEN NaN
    ELSE LET hi == CHOOSE k \in 2..Len(x) :
                      /\ ~RatLess(x[k].q, v.q)
                      /\ \A j \in 2..(k - 1) : RatLess(x[j].q, v.q)
             lo == hi - 1
             w == RatDiv(RatSub(v.q, x[lo].q), RatSub(x[hi].q, x[lo].q))
         IN  Add(Scale(w, Sub(y[hi], y[lo])), y[lo])

interp1d(x, y, xnew) == [j \in 1..Len(xnew) |-> interp1d_at(x, y, xnew[j])]

\* An array is [ndim |-> 1, data |-> samples] or [ndim |-> 2, data |-> rows].
Array1(data) == [ndim |-> 1, data |-> data]

\* np.vstack((a, row))
vstack(a, row) ==
    IF a.ndim = 1 THEN [ndim |-> 2, data |-> <<a.data, row>>]
    ELSE [ndim |-> 2, data |-> Append(a.data, row)]

Column(rows, j) == [r \in 1..Len(rows) |-> rows[r][j]]

\* Mutant of mean_axis0: the rows are summed but not divided by their number.
sum_axis0(a) ==
    [j \in 1..Len(a.data[1]) |-> Sum(Column(a.data, j))]

\* a.mean(axis=0) of a 2-d array
mean_axis0(a) ==
    [j \in 1..Len(a.data[1]) |-> Mean(Column(a.data, j))]

\* a.std(axis=0)/np.sqrt(n) of a 2-d array.  A column with a not-a-number
\* gives not-a-number; a column of equal values gives 0; any other gives the
\* root mean square of the deviations from the mean over sqrt(n), kept as
\* that expression (it is positive and in general irrational).
std_axis0_over_sqrt(a, n) ==
    [j \in 1..Len(a.data[1]) |->
        LET col == Column(a.data, j)
            dev == [r \in 1..Len(col) |-> Sub(col[r], Mean(col))]
        IN  IF \E r \in 1..Len(col) : col[r].nan THEN NaN
            ELSE IF \A r \in 1..Len(col) : dev[r] = Num(0) THEN Num(0)
            ELSE [nan |-> FALSE, rms |-> dev, over_sqrt |-> n]]

\* np.zeros(n)
zeros(n) == [j \in 1..n |-> Num(0)]

\* np.vstack((curve, interp1d(x, y, ...)(energy)))
stack_scan(energy, curve, x, y) == vstack(curve, interp1d(x, y, energy))

\* The loop of load_multi_xas over the scans already loaded by
\* load_absorption (`loaded`), from scan i on.  acc.bound tells whether
\* 'energy' is a local variable yet.
RECURSIVE multi_xas_loop(_, _, _)
multi_xas_loop(loaded, i, acc) ==
    IF i > Len(loaded) THEN acc
    ELSE IF loaded[i].raised
    THEN [raised |-> TRUE, where |-> loaded[i].where, exc |-> loaded[i].exc,
          bound |-> acc.bound]
    ELSE IF ~acc.bound
    THEN multi_xas_loop(loaded, i + 1,
            [raised |-> FALSE, bound |-> TRUE, energy |-> loaded[i].x,
             xanes |-> Array1(loaded[i].y)])
    ELSE multi_xas_loop(loaded, i + 1,
            [raised |-> FALSE, bound |-> TRUE, energy |-> acc.energy,
             xanes |-> stack_scan(acc.energy, acc.xanes, loaded[i].x, loaded[i].y)])

\* Mutant of Unbound: the call starts with 'energy' and the curves of an
\* earlier call still bound (an accumulator kept outside the call).
Leftover ==
    [raised |-> FALSE, bound |-> TRUE, energy |-> <<Num(0), Num(2)>>,
     xanes |-> Array1(<<Num(1), Num(1)>>), xmcd |-> Array1(<<Num(1), Num(1)>>)]

\* The local variables at the start of a call: 'energy' not in locals().
Unbound == [raised |-> FALSE, bound |-> FALSE]

load_multi_xas(loaded, return_mean) ==
    LET acc == multi_xas_loop(loaded, 1, Unbound)
    IN  IF acc.raised THEN Raised(acc.where, acc.exc)
        ELSE IF ~acc.bound THEN Raised("xanes", "UnboundLocalError")
        ELSE IF return_mean
        THEN IF acc.xanes.ndim = 2
             THEN [raised |-> FALSE, where |-> "", exc |-> "", nout |-> 3,
                   stack |-> acc.xanes,
                   energy |-> acc.energy,
                   xanes |-> Array1(mean_axis0(acc.xanes)),
                   xanes_std |-> std_axis0_over_sqrt(acc.xanes, Len(loaded))]
             ELSE [raised |-> FALSE, where |-> "", exc |-> "", nout |-> 3,
                   stack |-> acc.xanes,
                   energy |-> acc.energy,
                   xanes |-> acc.xanes,
                   xanes_std |-> zeros(Len(acc.xanes.data))]
        ELSE [raised |-> FALSE, where |-> "", exc |-> "", nout |-> 2,
              stack |-> acc.xanes,
              energy |-> acc.energy, xanes |-> acc.xanes]

\* The loop of load_multi_dichro and of load_multi_lockin over the scans
\* already loaded by load_dichro or load_lockin.
RECURSIVE multi_xmcd_loop(_, _, _)
multi_xmcd_loop(loaded, i, acc) ==
    IF i > Len(loaded) THEN acc
    ELSE IF loaded[i].raised
    THEN [raised |-> TRUE, where |-> loaded[i].where, exc |-> loaded[i].exc,
          bound |-> acc.bound]
    ELSE IF ~acc.bound
    THEN multi_xmcd_loop(loaded, i + 1,
            [raised |-> FALSE, bound |-> TRUE, energy |-> loaded[i].x,
             xanes |-> Array1(loaded[i].xanes), xmcd |-> Array1(loaded[i].xmcd)])
    ELSE multi_xmcd_loop(loaded, i + 1,
            [raised |-> FALSE, bound |-> TRUE, energy |-> acc.energy,
             xanes |-> stack_scan(acc.energy, acc.xanes, loaded[i].x, loaded[i].xanes),
             xmcd |-> stack_scan(acc.energy, acc.xmcd, loaded[i].x, loaded[i].xmcd)])

multi_xmcd_return(loaded, return_mean) ==
    LET acc == multi_xmcd_loop(loaded, 1, Unbound)
    IN  IF acc.raised THEN Raised(acc.where, acc.exc)
        ELSE IF ~acc.bound THEN Raised("xanes", "UnboundLocalError")
        ELSE IF return_mean
        THEN IF acc.xanes.ndim = 2
             THEN [raised |-> FALSE, where |-> "", exc |-> "", nout |-> 5,
                   stack |-> acc.xanes, stack_xmcd |-> acc.xmcd,
                   energy |-> acc.energy,
                   xanes |-> Array1(mean_axis0(acc.xanes)),
                   xmcd |-> Array1(mean_axis0(acc.xmcd)),
                   xanes_std |-> std_axis0_over_sqrt(acc.xanes, Len(loaded)),
                   xmcd_std |-> std_axis0_over_sqrt(acc.xmcd, Len(loaded))]
             ELSE [raised |-> FALSE, where |-> "", exc |-> "", nout |-> 5,
                   stack |-> acc.xanes, stack_xmcd |-> acc.xmcd,
                   energy |-> acc.energy,
                   xanes |-> acc.xanes, xmcd |-> acc.xmcd,
                   xanes_std |-> zeros(Len(acc.xanes.data)),
                   xmcd_std |-> zeros(Len(acc.xanes.data))]
        ELSE [raised |-> FALSE, where |-> "", exc |-> "", nout |-> 3,
              stack |-> acc.xanes, stack_xmcd |-> acc.xmcd,
              energy |-> acc.energy, xanes |-> acc.xanes, xmcd |-> acc.xmcd]

load_multi_dichro(loaded, return_mean) == multi_xmcd_return(loaded, return_mean)

load_multi_lockin(loaded, return_mean) == multi_xmcd_return(loaded, return_mean)

----------------------------------------------------------------------------
(* Calls of the aggregators.                                               *)

\* Energy grids of the scans of a sequence: different ranges and steps.
Grids == {<<0, 2>>, <<1, 2>>, <<0, 1, 2>>}
AsColumn(grid) == [i \in 1..Len(grid) |-> Num(grid[i])]
\* Four consecutive samples per grid point.
FourPerPoint(grid) == [i \in 1..(4 * Len(grid)) |-> Num(grid[((i - 1) \div 4) + 1])]

AggSources == {"legacy.spec", "databroker", "missing.spec"}

\* The tables of the scans each aggregator is pointed at.
XasScans(source) ==
    {XasTable(Convention(source), AsColumn(g), Pattern(k, Len(g)), Pattern(1, Len(g))) :
        g \in Grids, k \in {2, 3}}
LockinScans(source) ==
    {LockinTable(Convention(source), AsColumn(g), Pattern(k, Len(g)),
                 Pattern(3, Len(g)), Pattern(1, Len(g))) :
        g \in Grids, k \in {1, 3}}
DichroScans(source) ==
    IF Convention(source) = spec_default_cols
    THEN {DichroSpecTable(AsColumn(g), Pattern(1, Len(g)), Pattern(k, Len(g)),
                          Pattern(1, Len(g)), Pattern(2, Len(g))) :
            g \in Grids, k \in {2, 3}}
    ELSE {XasTable(Convention(source), FourPerPoint(g), Pattern(k, 4 * Len(g)),
                   Pattern(1, 4 * Len(g))) :
            g \in Grids, k \in {2, 4}}

\* scans = <<1, ..., k>>; lts[i] is what load_table gives for scan i.
call_load_multi_xas ==
    /\ pc = "idle"
    /\ \E source \in AggSources, transmission \in BOOLEAN, return_mean \in BOOLEAN,
          k \in 0..MaxScans :
       \E lts \in [1..k -> load_table(source, XasScans(source))] :
          LET loaded == [i \in 1..k |->
                            load_absorption(source, "None", "None", "None",
                                            transmission, lts[i])]
          IN  /\ fn' = "load_multi_xas"
              /\ args' = [scans |-> [i \in 1..k |-> i], source |-> source,
                          return_mean |-> return_mean,
                          transmission |-> transmission, loaded |-> loaded]
              /\ ret' = load_multi_xas(loaded, return_mean)
    /\ pc' = "returned"

call_load_multi_dichro ==
    /\ pc = "idle"
    /\ \E source \in AggSources, transmission \in BOOLEAN, return_mean \in BOOLEAN,
          k \in 0..MaxScans :
       \E lts \in [1..k -> load_table(source, DichroScans(source))] :
          LET loaded == [i \in 1..k |->
                            load_dichro(source, "None", "None", "None",
                                        transmission, lts[i])]
          IN  /\ fn' = "load_multi_dichro"
              /\ args' = [scans |-> [i \in 1..k |-> i], source |-> source,
                          return_mean |-> return_mean,
                          transmission |-> transmission, loaded |-> loaded]
              /\ ret' = load_multi_dichro(loaded, return_mean)
    /\ pc' = "returned"

call_load_multi_lockin ==
    /\ pc = "idle"
    /\ \E source \in AggSources, return_mean \in BOOLEAN, k \in 0..MaxScans :
       \E lts \in [1..k -> load_table(source, LockinScans(source))] :
          LET loaded == [i \in 1..k |->
                            load_lockin(source, "None", "None", "None", "None",
                                        lts[i])]
          IN  /\ fn' = "load_multi_lockin"
              /\ args' = [scans |-> [i \in 1..k |-> i], source |-> source,
                          return_mean |-> return_mean, loaded |-> loaded]
              /\ ret' = load_multi_lockin(loaded, return_mean)
    /\ pc' = "returned"

NextMulti ==
    call_load_multi_xas \/ call_load_multi_dichro \/ call_load_multi_lockin \/ Return

SpecMulti == Init /\ [][NextMulti]_vars

----------------------------------------------------------------------------
(* Properties of the normalisation (SpecNorm).                             *)

\* A call that ran _flatten_norm (directly or from normalize_absorption),
\* and what _flatten_norm was given and did.
FlattenRan ==
    /\ pc = "returned"
    /\ \/ fn = "_flatten_norm"
       \/ fn = "normalize_absorption" /\ ret.where # "preedge"
FlattenOut == IF fn = "_flatten_norm" THEN ret ELSE ret.trace
FlattenIn == IF fn = "_flatten_norm" THEN args
             ELSE [energy |-> args.energy, norm |-> ret.pre.norm, e0 |-> ret.pre.e0,
                   norm1 |-> ret.pre.norm1, norm2 |-> ret.pre.norm2,
                   nnorm |-> ret.pre.nnorm, fpars |-> args.fpars]
FlattenReturned == FlattenRan /\ ~ret.raised

\* The offset the fitted polynomial takes between energy x and energy y.
PolyDiff(x, y) ==
    Num(PolyEval(FlattenOut.coefs, x) - PolyEval(FlattenOut.coefs, y))

\* C1: in every returned flattened curve, every sample strictly before the
\* edge index (the index of the energy nearest to e0) equals the normalised
\* sample exactly, whatever polynomial was fitted.
C1_PreEdgeUntouched ==
    FlattenReturned =>
        \A i \in 1..Len(FlattenOut.flat) :
            i - 1 < index_nearest(FlattenIn.energy, FlattenIn.e0)
                => FlattenOut.flat[i] = FlattenIn.norm[i]

\* C1 witness: a returned curve with a finite sample before the edge index
\* at which the fitted polynomial differs from its value at the edge sample,
\* so that the subtraction would have changed it.
C1_Witness ==
    /\ FlattenReturned
    /\ \E i \in 1..Len(FlattenOut.flat) :
          /\ i - 1 < FlattenOut.ie0
          /\ isfinite(FlattenIn.norm[i])
          /\ PolyDiff(FlattenIn.energy[i], FlattenIn.energy[FlattenOut.ie0 + 1]) # Num(0)

\* C2 as claimed: from the edge index onward,
\* flat[i] = norm[i] - (poly(energy[i]) - poly(e0)), e0 the edge energy
\* (stated for _flatten_norm itself, whatever e0 it is handed).
C2_OffsetAtEdgeEnergy ==
    (FlattenReturned /\ fn = "_flatten_norm") =>
        \A i \in 1..Len(FlattenOut.flat) :
            i - 1 >= index_nearest(FlattenIn.energy, FlattenIn.e0)
                => FlattenOut.flat[i] =
                     Sub(FlattenIn.norm[i], PolyDiff(FlattenIn.energy[i], FlattenIn.e0))

\* C2 amended: from the edge index onward,
\* flat[i] = norm[i] - (poly(energy[i]) - poly(energy[ie0])): the offset is
\* taken at the energy sample nearest to e0, not at e0 itself.
C2_OffsetAtEdgeSample ==
    FlattenReturned =>
        LET ie0 == index_nearest(FlattenIn.energy, FlattenIn.e0)
        IN  \A i \in 1..Len(FlattenOut.flat) :
                i - 1 >= ie0
                    => FlattenOut.flat[i] =
                         Sub(FlattenIn.norm[i],
                             PolyDiff(FlattenIn.energy[i], FlattenIn.energy[ie0 + 1]))

\* C2 witness: a returned curve whose edge energy lies between two samples,
\* with a non-constant polynomial and a finite sample after the edge index.
C2_Witness ==
    /\ FlattenReturned
    /\ \A j \in 1..Len(FlattenIn.energy) : FlattenIn.energy[j] # FlattenIn.e0
    /\ FlattenIn.nnorm >= 1
    /\ \E i \in 1..Len(FlattenOut.flat) :
          /\ i - 1 > FlattenOut.ie0
          /\ isfinite(FlattenIn.norm[i])
          /\ FlattenOut.flat[i] # FlattenIn.norm[i]

\* C3 as claimed: normalize_absorption called with energy and absorption
\* arrays of different lengths raises, before any fit is attempted.
C3_LengthMismatchFails ==
    (pc = "returned" /\ fn = "normalize_absorption"
        /\ Len(args.energy) # Len(args.xanes))
    => (ret.raised /\ ret.where = "preedge" /\ ret.nfit = 0 /\ ret.nguess = 0)

\* C4 as claimed: _flatten_norm raises whenever fewer than 2 samples of the
\* post-edge window energy[p1:p2] are left after the non-finite pairs are
\* removed.
C4_NarrowWindowFails ==
    (FlattenRan /\ Len(FlattenOut.enx) < 2) => ret.raised

\* C5 as claimed: when the polynomial fit does not converge the call ends
\* raising, after exactly one attempt of the fit.
C5_NonConvergenceFails ==
    (FlattenRan /\ FlattenOut.fitstatus = "aborted")
    => (ret.raised /\ FlattenOut.nfit = 1)

----------------------------------------------------------------------------
(* Properties of the single-scan loaders (SpecLoad).                       *)

LoaderReturned(name) == pc = "returned" /\ fn = name /\ ~ret.raised

\* C6 as claimed: in load_absorption, load_lockin and load_dichro a
\* file-not-found or not-a-spec-file condition raised while the source
\* convention is detected never reaches the caller.
C6_DetectionNeverPropagates ==
    (/\ pc = "returned"
     /\ fn \in {"load_absorption", "load_lockin", "load_dichro"}
     /\ is_str_or_SpecDataFile(args.source)
     /\ is_Bluesky_specfile(args.source).raised)
    => ~(ret.raised /\ ret.where = "is_Bluesky_specfile")

\* y is ln(m/d): a whole multiple k of ln(2) with d * 2^k = m.
IsLnOfRatio(y, m, d) ==
    /\ ~y.nan /\ y.q = Zero /\ y.l[2] = 1
    /\ IF y.l[1] >= 0 THEN m.q = RatMul(d.q, <<2 ^ y.l[1], 1>>)
       ELSE d.q = RatMul(m.q, <<2 ^ (-y.l[1]), 1>>)

\* y is d/m: a rational with y * m = d.
IsRatio(y, d, m) == ~y.nan /\ y.l = Zero /\ RatMul(y.q, m.q) = d.q

\* C9: load_absorption returns the positioner column unchanged and, sample
\* by sample, ln(monitor/detector) in transmission mode and detector/monitor
\* otherwise; load_lockin returns the positioner and DC columns unchanged and
\* the AC column minus the AC-offset column.
C9_LoaderArithmetic ==
    /\ LoaderReturned("load_absorption") =>
          LET mon == ret.table[ret.names.monitor]
              det == ret.table[ret.names.detector]
          IN  /\ ret.x = ret.table[ret.names.positioner]
              /\ Len(ret.y) = Len(ret.x)
              /\ \A i \in 1..Len(ret.y) :
                    IF args.transmission THEN IsLnOfRatio(ret.y[i], mon[i], det[i])
                    ELSE IsRatio(ret.y[i], det[i], mon[i])
    /\ LoaderReturned("load_lockin") =>
          /\ ret.x = ret.table[ret.names.positioner]
          /\ ret.xanes = ret.table[ret.names.dc_col]
          /\ Len(ret.xmcd) = Len(ret.x)
          /\ \A i \in 1..Len(ret.xmcd) :
                Add(ret.xmcd[i], ret.table[ret.names.acoff_col][i])
                    = ret.table[ret.names.ac_col][i]

\* C9 witness: load_absorption returned a transmission curve with a sample
\* whose monitor and detector counts differ.
C9_Witness ==
    /\ LoaderReturned("load_absorption")
    /\ args.transmission
    /\ \E i \in 1..Len(ret.y) :
          ret.table[ret.names.monitor][i] # ret.table[ret.names.detector][i]

\* load_dichro got as far as reshaping the loaded samples four by four.
DichroAtReshape ==
    /\ pc = "returned" /\ fn = "load_dichro"
    /\ ret.where \in {"", "reshape"}
    /\ ret.branch = "four"
DichroSamples == Len(ret.table[ret.names.positioner])

\* C10 as claimed: with a sample count that is no multiple of 4 the call
\* returns x, xanes and xmcd of length floor(n/4) and raises nothing.
C10_TruncatesSilently ==
    (DichroAtReshape /\ DichroSamples % 4 # 0)
    => /\ ~ret.raised
       /\ Len(ret.x) = DichroSamples \div 4
       /\ Len(ret.xanes) = DichroSamples \div 4
       /\ Len(ret.xmcd) = DichroSamples \div 4

\* C10 amended: with a sample count that is no multiple of 4 the reshape
\* into (n // 4, 4) is refused: the call raises and returns no data.
C10_ReshapeRaises ==
    (DichroAtReshape /\ DichroSamples % 4 # 0)
    => (ret.raised /\ ret.where = "reshape")

\* C10 witness: load_dichro on a scan of 5 samples ended at the reshape.
C10_Witness ==
    /\ DichroAtReshape
    /\ DichroSamples = 5
    /\ ret.raised

----------------------------------------------------------------------------
(* Properties of the multi-scan aggregators (SpecMulti).                   *)

MultiReturned ==
    /\ pc = "returned"
    /\ fn \in {"load_multi_xas", "load_multi_dichro", "load_multi_lockin"}
    /\ ~ret.raised

\* The curves of one loaded scan, and the stacks and results built from them.
TwoCurves == fn # "load_multi_xas"
ScanXanes(k) == IF TwoCurves THEN args.loaded[k].xanes ELSE args.loaded[k].y
ScanXmcd(k) == args.loaded[k].xmcd

\* C7: with return_mean and two scans whose loaded data are identical, the
\* returned mean curves are the curves of the single scan and every
\* standard error is zero.
C7_IdenticalScansMean ==
    (/\ MultiReturned
     /\ args.return_mean
     /\ Len(args.scans) = 2
     /\ args.loaded[1] = args.loaded[2])
    => /\ ret.energy = args.loaded[1].x
       /\ ret.xanes = Array1(ScanXanes(1))
       /\ ret.xanes_std = zeros(Len(ret.energy))
       /\ TwoCurves => /\ ret.xmcd = Array1(ScanXmcd(1))
                       /\ ret.xmcd_std = zeros(Len(ret.energy))

\* C7 witness: load_multi_dichro averaged two identical scans whose xanes
\* and xmcd curves are not zero everywhere.
C7_Witness ==
    /\ MultiReturned
    /\ fn = "load_multi_dichro"
    /\ args.return_mean
    /\ Len(args.scans) = 2
    /\ args.loaded[1] = args.loaded[2]
    /\ \E j \in 1..Len(ret.energy) :
          ScanXanes(1)[j] # Num(0) /\ ScanXmcd(1)[j] # Num(0)

\* v lies on the straight line through (xa, ya) and (xb, yb) at e:
\* (xb - xa) v = (xb - e) ya + (e - xa) yb.
OnLine(v, e, xa, ya, xb, yb) ==
    Scale(RatSub(xb.q, xa.q), v)
        = Add(Scale(RatSub(xb.q, e.q), ya), Scale(RatSub(e.q, xa.q), yb))

\* Row `row` holds the curve (x, y) resampled on the grid `energy`: not a
\* number outside [x[0], x[-1]], on the line between two neighbouring
\* samples inside.
Resampled(row, energy, x, y) ==
    /\ Len(row) = Len(energy)
    /\ \A j \in 1..Len(energy) :
          IF RatLess(energy[j].q, x[1].q) \/ RatLess(x[Len(x)].q, energy[j].q)
          THEN row[j] = NaN
          ELSE \E a \in 1..(Len(x) - 1) :
                  /\ ~RatLess(energy[j].q, x[a].q)
                  /\ ~RatLess(x[a + 1].q, energy[j].q)
                  /\ OnLine(row[j], energy[j], x[a], y[a], x[a + 1], y[a + 1])

\* C8: the returned energy grid is the energy array of the first scan,
\* however many scans follow; the first row of the stack is the first scan
\* as loaded, and every later scan is in the stack resampled linearly on
\* that grid, not a number wherever the grid leaves the scan's own range.
C8_GridAndInterpolation ==
    MultiReturned =>
       /\ ret.energy = args.loaded[1].x
       /\ Len(args.scans) >= 2 =>
             /\ ret.stack.ndim = 2
             /\ Len(ret.stack.data) = Len(args.scans)
             /\ ret.stack.data[1] = ScanXanes(1)
             /\ \A k \in 2..Len(args.scans) :
                   Resampled(ret.stack.data[k], ret.energy,
                             args.loaded[k].x, ScanXanes(k))
             /\ TwoCurves =>
                   /\ Len(ret.stack_xmcd.data) = Len(args.scans)
                   /\ ret.stack_xmcd.data[1] = ScanXmcd(1)
                   /\ \A k \in 2..Len(args.scans) :
                         Resampled(ret.stack_xmcd.data[k], ret.energy,
                                   args.loaded[k].x, ScanXmcd(k))

\* C8 witness: three scans; one of the later scans does not reach a grid
\* point (not a number there) and one is interpolated at a grid point that
\* is none of its own energies.
C8_Witness ==
    /\ MultiReturned
    /\ Len(args.scans) = 3
    /\ \E k \in 2..3 : \E j \in 1..Len(ret.energy) : ret.stack.data[k][j] = NaN
    /\ \E k \in 2..3 : \E j \in 1..Len(ret.energy) :
          /\ ret.stack.data[k][j] # NaN
          /\ \A a \in 1..Len(args.loaded[k].x) : args.loaded[k].x[a] # ret.energy[j]

\* C11 as claimed: load_multi_xas returns xanes of shape
\* (len(scans), len(energy)) and three outputs when return_mean is True, and
\* xanes of shape (len(energy)) and two outputs when it is False.
C11_ShapesAsDocumented ==
    (MultiReturned /\ fn = "load_multi_xas") =>
        IF args.return_mean
        THEN /\ ret.nout = 3
             /\ ret.xanes.ndim = 2
             /\ Len(ret.xanes.data) = Len(args.scans)
             /\ \A r \in 1..Len(ret.xanes.data) :
                   Len(ret.xanes.data[r]) = Len(ret.energy)
        ELSE /\ ret.nout = 2
             /\ ret.xanes.ndim = 1
             /\ Len(ret.xanes.data) = Len(ret.energy)

----------------------------------------------------------------------------
(* Further properties of the normalisation (SpecNorm).                     *)

\* C12: with a degree-0 (constant) post-edge polynomial the returned
\* flattened curve equals the normalised curve at every index; for every
\* degree flat[ie0] = norm[ie0] at the edge index, and the step of the
\* flattened curve from index ie0-1 to ie0 is the step of the normalised
\* curve (both of its ends are the normalised samples).
C12_NoJumpAtEdge ==
    FlattenReturned =>
        LET ie0 == index_nearest(FlattenIn.energy, FlattenIn.e0)
        IN  /\ FlattenIn.nnorm = 0 => FlattenOut.flat = FlattenIn.norm
            /\ FlattenOut.flat[ie0 + 1] = FlattenIn.norm[ie0 + 1]
            /\ ie0 >= 1 =>
                  Sub(FlattenOut.flat[ie0 + 1], FlattenOut.flat[ie0])
                      = Sub(FlattenIn.norm[ie0 + 1], FlattenIn.norm[ie0])

\* C12 witness: a returned curve flattened with a constant polynomial (a
\* non-zero constant), with the edge index inside the array, finite samples
\* on both sides of the edge and a finite sample after it.
C12_Witness ==
    /\ FlattenReturned
    /\ FlattenIn.nnorm = 0
    /\ FlattenOut.coefs[1] # 0
    /\ FlattenOut.ie0 >= 1
    /\ isfinite(FlattenIn.norm[FlattenOut.ie0])
    /\ isfinite(FlattenIn.norm[FlattenOut.ie0 + 1])
    /\ \E i \in 1..Len(FlattenOut.flat) :
          i - 1 > FlattenOut.ie0 /\ isfinite(FlattenIn.norm[i])

----------------------------------------------------------------------------
(* Further properties of the single-scan loaders (SpecLoad).               *)

\* The sources that are readable spec files not written by Bluesky, given
\* by name or as a SpecDataFile object.
LegacySpecSources == {"legacy.spec", "SpecDataFile(legacy.spec)"}

----------------------------------------------------------------------------
(* Further properties of the multi-scan aggregators (SpecMulti).           *)

MultiCalled ==
    /\ pc = "returned"
    /\ fn \in {"load_multi_xas", "load_multi_dichro", "load_multi_lockin"}

\* C14: every call of an aggregator starts with nothing accumulated.  With
\* an empty sequence of scans the call raises, whatever was called before;
\* with one scan (that loads) and return_mean it returns the energy and the
\* curves of that scan unchanged, and standard errors that are all zero and
\* as long as the curves.
C14_FreshCall ==
    MultiCalled =>
       /\ Len(args.scans) = 0 => ret.raised
       /\ (Len(args.scans) = 1 /\ args.return_mean /\ ~args.loaded[1].raised) =>
             /\ ~ret.raised
             /\ ret.energy = args.loaded[1].x
             /\ ret.xanes = Array1(ScanXanes(1))
             /\ Len(ret.xanes_std) = Len(ScanXanes(1))
             /\ \A j \in 1..Len(ret.xanes_std) : ret.xanes_std[j] = Num(0)
             /\ TwoCurves =>
                   /\ ret.xmcd = Array1(ScanXmcd(1))
                   /\ Len(ret.xmcd_std) = Len(ScanXmcd(1))
                   /\ \A j \in 1..Len(ret.xmcd_std) : ret.xmcd_std[j] = Num(0)

\* C14 witness: load_multi_lockin averaged a one-scan sequence whose curves
\* are not constant.
C14_Witness ==
    /\ MultiCalled
    /\ fn = "load_multi_lockin"
    /\ ~ret.raised
    /\ args.return_mean
    /\ Len(args.scans) = 1
    /\ \E i, j \in 1..Len(ScanXanes(1)) : ScanXanes(1)[i] # ScanXanes(1)[j]
    /\ \E i, j \in 1..Len(ScanXmcd(1)) : ScanXmcd(1)[i] # ScanXmcd(1)[j]

====
